---- MODULE Spec2Model ----
(***************************************************************************)
(* A model of verizonmessages2sms.py: the conversion of the rows of a      *)
(* Verizon Messages store into an SMS Backup document.                     *)
(*                                                                         *)
(* Text is a sequence of one-character strings, so that the regular        *)
(* expressions, the digit stripping and the upper-casing of the source are *)
(* computed character by character.  A Python value that may be None is a  *)
(* record [some, v].                                                       *)
(***************************************************************************)
EXTENDS Integers, Sequences, FiniteSets, TLC

VARIABLES
    phonenumbers,   \* TRUE iff "import phonenumbers" succeeded (line 45-48)
    pyMajor,        \* major version of the interpreter running the file (2 or 3)
    osName,         \* os.name
    localeSetting,  \* what locale.setlocale / locale.getlocale()[0] give
    argRegion,      \* args.region as parsed (--region)
    argSender,      \* args.sender as parsed (--sender, a list or None)
    argContacts,    \* args.contacts as parsed: the lines of the file, or None
    dbReadable,     \* whether open(args.messages_db, "rb") succeeds
    pc,             \* position in main
    region,         \* args.region after lines 228-231
    senders,        \* args.sender after lines 233-235
    num2name,       \* num2name after lines 237-240
    rowsRead,       \* the rows the cursor has yielded so far, in order
    messages,       \* the records of the list comprehension of lines 249-252
    smses,          \* the root element of lines 254-260
    output,         \* what has been written to args.output, in order
    outputClosed,   \* whether args.output has been closed
    status,         \* completion status of the process (-1 while running)
    call,           \* a single call of one function: its name and arguments
    result          \* what that call returned ([done |-> FALSE] before)

vars == <<phonenumbers, pyMajor, osName, localeSetting, argRegion, argSender,
          argContacts, dbReadable, pc, region, senders, num2name, rowsRead,
          messages, smses, output, outputClosed, status, call, result>>

(***************************************************************************)
(* Bounds of the model.                                                    *)
(***************************************************************************)
\* longest digit string of the canonical numbers tried on the normalizer
MaxDigits == 11
\* CreatedOn values lie within this many milliseconds of 1970-01-01
MaxMsOffset == 1
\* most rows a store holds
MaxRows == 2

(***************************************************************************)
(* Python values.                                                          *)
(***************************************************************************)
None == [some |-> FALSE, v |-> <<>>]
Some(x) == [some |-> TRUE, v |-> x]
NoneSet == [some |-> FALSE, v |-> {}]

\* a value returned, or an exception raised
Ok(x) == [ok |-> TRUE, v |-> x, exc |-> ""]
Raise(e) == [ok |-> FALSE, v |-> <<>>, exc |-> e]

LowerLetters == <<"a", "b", "c", "d", "e", "f", "g", "h", "i", "j", "k", "l", "m",
                  "n", "o", "p", "q", "r", "s", "t", "u", "v", "w", "x", "y", "z">>
UpperLetters == <<"A", "B", "C", "D", "E", "F", "G", "H", "I", "J", "K", "L", "M",
                  "N", "O", "P", "Q", "R", "S", "T", "U", "V", "W", "X", "Y", "Z">>
Range(f) == {f[i] : i \in DOMAIN f}
DigitSeq == <<"0", "1", "2", "3", "4", "5", "6", "7", "8", "9">>
DigitChars == Range(DigitSeq)

\* [A-Z] under re.IGNORECASE
IsLetter(c) == c \in Range(LowerLetters) \cup Range(UpperLetters)

UpperChar(c) ==
    IF c \in Range(LowerLetters)
    THEN UpperLetters[CHOOSE i \in DOMAIN LowerLetters : LowerLetters[i] = c]
    ELSE c

\* str.upper()
Upper(s) == [i \in DOMAIN s |-> UpperChar(s[i])]

\* str(n) for an integer n
RECURSIVE DecDigits(_)
DecDigits(n) ==
    IF n < 10 THEN <<DigitSeq[n + 1]>>
    ELSE Append(DecDigits(n \div 10), DigitSeq[(n % 10) + 1])
PyStr(n) == IF n < 0 THEN <<"-">> \o DecDigits(0 - n) ELSE DecDigits(n)

(***************************************************************************)
(* _created_on_to_timestamp_ms, lines 69-76.                               *)
(*                                                                         *)
(* CreatedOn is about 6 * 10^17 and does not fit the model checker's       *)
(* integers, so a tick count is written [ms, sub] and stands for           *)
(*     621672192000000000 + 10000 * ms + sub      with sub in 0..9999,     *)
(* that is: ms milliseconds and sub ticks after 1970-01-01.  Then          *)
(*     created_on / 10000 = 62167219200000 + ms + sub / 10000.             *)
(* Python 2 divides two integers with floor division.  Python 3 divides    *)
(* them into the nearest double: the quotient lies between 2^45 and 2^46,  *)
(* where doubles are the multiples of 1/128, and the subtraction of        *)
(* 62167219200000 is then exact.  The value returned is kept in 128ths.    *)
(***************************************************************************)
TicksPerMs == 10000
\* doubles between 2^45 and 2^46 are 2^-7 apart
DoubleGrid == 128

\* n / d rounded to the nearest integer, ties to even (n >= 0, d > 0)
RoundHalfEven(n, d) ==
    LET q == n \div d
        r == n % d
    IN  IF 2 * r > d THEN q + 1
        ELSE IF 2 * r < d THEN q
        ELSE IF q % 2 = 0 THEN q ELSE q + 1

\* the result in 128ths of a millisecond, and whether it is an int or a float
CreatedOnToTimestampMs(created_on) ==
    IF pyMajor = 2
    THEN [float |-> FALSE, n128 |-> DoubleGrid * created_on.ms]
    ELSE [float |-> TRUE,
          n128 |-> DoubleGrid * created_on.ms
                   + RoundHalfEven(DoubleGrid * created_on.sub, TicksPerMs)]

\* int(x): truncation towards zero
PyInt(x) ==
    IF x.n128 >= 0 THEN x.n128 \div DoubleGrid
    ELSE 0 - ((0 - x.n128) \div DoubleGrid)

(***************************************************************************)
(* _guess_region, lines 78-92.                                             *)
(***************************************************************************)
\* the last index of the run of letters of s that starts at i (i - 1: none)
LetterRunEnd(s, i) ==
    CHOOSE k \in (i - 1)..Len(s) :
        /\ \A j \in i..k : IsLetter(s[j])
        /\ k = Len(s) \/ ~IsLetter(s[k + 1])

\* re.match("-([A-Z]+)(?:_|$)", locale_name, re.IGNORECASE): group 1 or None
MatchNt(locale_name) ==
    IF Len(locale_name) >= 1 /\ locale_name[1] = "-"
    THEN LET k == LetterRunEnd(locale_name, 2)
         IN  IF k >= 2 /\ (k = Len(locale_name) \/ locale_name[k + 1] = "_")
             THEN Some(SubSeq(locale_name, 2, k))
             ELSE None
    ELSE None

\* re.match("^[A-Z]+_([A-Z]+)", locale_name, re.IGNORECASE): group 1 or None
MatchPosix(locale_name) ==
    LET j == LetterRunEnd(locale_name, 1)
    IN  IF j >= 1 /\ j + 1 <= Len(locale_name) /\ locale_name[j + 1] = "_"
        THEN LET m == LetterRunEnd(locale_name, j + 2)
             IN  IF m >= j + 2 THEN Some(SubSeq(locale_name, j + 2, m)) ELSE None
        ELSE None

\* locale.setlocale raises locale.Error for a locale the host does not have
GuessRegion(os_name, setting) ==
    IF setting.kind = "unsupported" THEN Raise("locale.Error")
    ELSE IF setting.kind = "none" THEN Ok(None)
    ELSE LET match == IF os_name = "nt" THEN MatchNt(setting.name)
                      ELSE MatchPosix(setting.name)
         IN  IF ~match.some THEN Ok(None) ELSE Ok(Some(Upper(match.v)))

(***************************************************************************)
(* _normalize_phone_num, lines 104-116.                                    *)
(***************************************************************************)
US == <<"U", "S">>
DE == <<"D", "E">>
FR == <<"F", "R">>

\* re.sub("[^0-9]+", "", phonestr)
OnlyNum(phonestr) == SelectSeq(phonestr, LAMBDA c : c \in DigitChars)

NormalizeFallbackAnyRegion(phonestr, reg) ==
    LET onlynum == OnlyNum(phonestr)
    IN  Ok(<<"+">> \o (IF Len(onlynum) = 10 THEN <<"1">> \o onlynum ELSE onlynum))

\* the definition of lines 111-116, used when phonenumbers is None
NormalizeFallback(phonestr, reg) ==
    LET onlynum == OnlyNum(phonestr)
    IN  Ok(<<"+">> \o (IF Len(onlynum) = 10 /\ reg = Some(US)
                       THEN <<"1">> \o onlynum
                       ELSE onlynum))

\* The definition of lines 105-109.  The phonenumbers library is not part of
\* the repository: parse is taken to read the digits of the text, to take a
\* text starting with '+' as carrying its country code, any other text as a
\* national number of the region, and to raise NumberParseException for a
\* text with fewer than two digits, or a national number with no known region.
CallingCode(reg) ==
    IF reg = Some(US) THEN Some(<<"1">>)
    ELSE IF reg = Some(DE) THEN Some(<<"4", "9">>)
    ELSE None

NormalizeFull(phonestr, reg) ==
    LET digits == OnlyNum(phonestr)
    IN  IF Len(digits) < 2 THEN Raise("NumberParseException")
        ELSE IF phonestr[1] = "+" THEN Ok(<<"+">> \o digits)
        ELSE IF ~CallingCode(reg).some THEN Raise("NumberParseException")
        ELSE Ok(<<"+">> \o CallingCode(reg).v \o digits)

NormalizePhoneNum(phonestr, reg) ==
    IF phonenumbers THEN NormalizeFull(phonestr, reg)
    ELSE NormalizeFallback(phonestr, reg)

(***************************************************************************)
(* _message_row_to_attrs, lines 118-160.                                   *)
(***************************************************************************)
NoDict == [kind |-> "None", map |-> <<>>]
Dict(m) == [kind |-> "dict", map |-> m]
\* the value _read_contacts returns on line 173
IntOne == [kind |-> "int", map |-> <<>>]

IsSentBySourceTypeOnly(source_type, sender, snd) == source_type = 3

\* the condition of line 125
IsSent(source_type, sender, snd) ==
    source_type = 3 \/ (snd.some /\ sender \in snd.v)

Unknown == <<"(", "U", "n", "k", "n", "o", "w", "n", ")">>

\* num2name.get(address)
DictGet(n2n, address) ==
    IF address \in DOMAIN n2n.map THEN Some(n2n.map[address]) ELSE None

\* lines 136-141: contact_name, or the AttributeError of (1).get
ContactName(n2n, address) ==
    IF n2n.kind = "None" THEN Ok(None)
    ELSE IF n2n.kind = "int" THEN Raise("AttributeError")
    ELSE IF DictGet(n2n, address).some THEN Ok(DictGet(n2n, address))
    ELSE Ok(Some(Unknown))

\* the dictionary of lines 143-160
Attrs(row, sms_date, sms_type, address, contact_name) ==
    [protocol |-> "0",
     address |-> address,
     date |-> PyStr(PyInt(sms_date)),
     type |-> sms_type,
     subject |-> "null",
     body |-> row.Body,
     toa |-> "null",
     sc_toa |-> "null",
     service_center |-> "null",
     read |-> PyStr(row.IsRead),
     status |-> "-1",
     locked |-> PyStr(row.IsLocked),
     date_sent |-> PyStr(PyInt(sms_date)),
     \* the text is made by the host's strftime from this many seconds
     readable_date |-> <<"strftime", PyInt(sms_date) \div 1000>>,
     contact_name |-> contact_name]

\* as MessageRowToAttrs, but a number that does not parse is kept as it is
MessageRowToAttrsBestEffort(row, n2n, reg, snd) ==
    LET sms_date == CreatedOnToTimestampMs(row.CreatedOn)
        parsed == NormalizePhoneNum(row.Sender, reg)
        sender == IF parsed.ok THEN parsed.v ELSE row.Sender
        sent == IsSent(row.SourceType, sender, snd)
        to == NormalizePhoneNum(row.ToAddress, reg)
        address == IF ~sent THEN sender ELSE IF to.ok THEN to.v ELSE row.ToAddress
        contact_name == ContactName(n2n, address)
    IN  IF ~contact_name.ok THEN contact_name
        ELSE Ok(Attrs(row, sms_date, IF sent THEN "2" ELSE "1", address,
                      contact_name.v))

MessageRowToAttrs(row, n2n, reg, snd) ==
    LET sms_date == CreatedOnToTimestampMs(row.CreatedOn)
        sender == NormalizePhoneNum(row.Sender, reg)
    IN  IF ~sender.ok THEN sender
        ELSE LET sent == IsSent(row.SourceType, sender.v, snd)
                 address == IF sent THEN NormalizePhoneNum(row.ToAddress, reg)
                            ELSE sender
             IN  IF ~address.ok THEN address
                 ELSE LET contact_name == ContactName(n2n, address.v)
                      IN  IF ~contact_name.ok THEN contact_name
                          ELSE Ok(Attrs(row, sms_date,
                                        IF sent THEN "2" ELSE "1",
                                        address.v, contact_name.v))

(***************************************************************************)
(* Inputs.                                                                 *)
(***************************************************************************)
\* the canonical numbers: '+' and at most MaxDigits digits
DigitStrings == UNION {[1..n -> {"1", "5"}] : n \in 0..MaxDigits}
CanonicalNumbers == {<<"+">> \o d : d \in DigitStrings}

Local10 == <<"(", "5", "5", "5", ")", " ", "1", "2", "3", "-", "4", "5", "6", "7">>
Plain10 == <<"5", "5", "5", "1", "2", "3", "4", "5", "6", "7">>
Intl11 == <<"+", "1", " ", "5", "5", "5", " ", "1", "2", "3", " ", "4", "5", "6", "7">>
Short7 == <<"5", "5", "5", "-", "0", "1", "0", "0">>
NoDigits == <<"n", "/", "a">>
E164Of10 == <<"+", "1", "5", "5", "5", "1", "2", "3", "4", "5", "6", "7">>
PlusOf10 == <<"+", "5", "5", "5", "1", "2", "3", "4", "5", "6", "7">>
E164Of7 == <<"+", "5", "5", "5", "0", "1", "0", "0">>

Alice == <<"A", "l", "i", "c", "e", "\n">>
Bob == <<"B", "o", "b", "\n">>

RawNumbers == {Local10, Plain10, Intl11, Short7, NoDigits, <<>>}
Regions == {None, Some(US), Some(DE), Some(FR)}

\* CreatedOn values: see _created_on_to_timestamp_ms for the notation
SubTicks == {0, 1, 4999, 5000, 9960, 9961, 9999}
CreatedOnValues == [ms : (0 - MaxMsOffset)..MaxMsOffset, sub : SubTicks]

SenderSets == {NoneSet, [some |-> TRUE, v |-> {}], [some |-> TRUE, v |-> {E164Of10}],
               [some |-> TRUE, v |-> {PlusOf10, E164Of7}]}
ContactTables == {NoDict, IntOne, Dict(<<>>), Dict(E164Of10 :> Alice),
                  Dict((PlusOf10 :> Bob) @@ (E164Of7 :> Alice))}
FnRows == [CreatedOn : CreatedOnValues, Sender : {Local10, Short7, NoDigits},
           ToAddress : {Plain10, Short7, <<>>}, SourceType : {2, 3, 9},
           Body : {"hi"}, IsRead : {1}, IsLocked : {0}]

NoLocale == [kind |-> "none", name |-> <<>>]
BadLocale == [kind |-> "unsupported", name |-> <<>>]
Locale(n) == [kind |-> "name", name |-> n]
LocaleNames == {<<"e", "n", "_", "U", "S">>, <<"d", "e", "_", "d", "e">>,
                <<"e", "n", "-", "U", "S">>, <<"e", "n", "-", "u", "s", "_", "x">>,
                <<"-", "U", "S">>, <<"e", "n">>, <<"C">>, <<"e", "n", "_", "1">>,
                <<"s", "r", "-", "L", "a", "t", "n", "-", "R", "S">>,
                <<"E", "n", "g", "l", "i", "s", "h", "_", "U", "n", "i", "t", "e", "d",
                  " ", "S", "t", "a", "t", "e", "s">>}
LocaleSettings == {NoLocale, BadLocale} \cup {Locale(n) : n \in LocaleNames}

(***************************************************************************)
(* One call of one function: the inputs are drawn by FnInit, the call is   *)
(* made by the action of the function.  The parts of the process that a    *)
(* function does not read are held at one value.                           *)
(***************************************************************************)
NotCalled == [done |-> FALSE, ret |-> Raise("")]
Returned(r) == [done |-> TRUE, ret |-> r]
NoElement == [built |-> FALSE, attrib |-> <<>>, children |-> <<>>]

MainIdle ==
    /\ argRegion = None /\ argSender = None /\ argContacts = None
    /\ dbReadable = TRUE
    /\ pc = "fn" /\ region = None /\ senders = NoneSet /\ num2name = NoDict
    /\ rowsRead = <<>> /\ messages = <<>> /\ smses = NoElement
    /\ output = <<>> /\ outputClosed = FALSE /\ status = -1

NormalizeCalls ==
    [fn : {"_normalize_phone_num"}, phonestr : CanonicalNumbers \cup RawNumbers,
     region : Regions]
RowCalls ==
    [fn : {"_message_row_to_attrs"}, row : FnRows, num2name : ContactTables,
     region : {None, Some(US)}, senders : SenderSets]

FnInit ==
    /\ MainIdle
    /\ result = NotCalled
    /\ \/ /\ call \in NormalizeCalls
          /\ phonenumbers \in BOOLEAN
          /\ pyMajor = 3 /\ osName = "posix" /\ localeSetting = NoLocale
       \/ /\ call = [fn |-> "_guess_region"]
          /\ osName \in {"nt", "posix"}
          /\ localeSetting \in LocaleSettings
          /\ phonenumbers = FALSE /\ pyMajor = 3
       \/ /\ call \in RowCalls
          /\ phonenumbers \in BOOLEAN
          /\ pyMajor \in {2, 3}
          /\ osName = "posix" /\ localeSetting = NoLocale

FnUnchanged ==
    UNCHANGED <<phonenumbers, pyMajor, osName, localeSetting, argRegion, argSender,
                argContacts, dbReadable, pc, region, senders, num2name, rowsRead,
                messages, smses, output, outputClosed, status, call>>

CallNormalizePhoneNum ==
    /\ ~result.done
    /\ call.fn = "_normalize_phone_num"
    /\ result' = Returned(NormalizePhoneNum(call.phonestr, call.region))
    /\ FnUnchanged

CallGuessRegion ==
    /\ ~result.done
    /\ call.fn = "_guess_region"
    /\ result' = Returned(GuessRegion(osName, localeSetting))
    /\ FnUnchanged

CallMessageRowToAttrs ==
    /\ ~result.done
    /\ call.fn = "_message_row_to_attrs"
    /\ result' = Returned(MessageRowToAttrs(call.row, call.num2name, call.region,
                                            call.senders))
    /\ FnUnchanged

FnNext == CallNormalizePhoneNum \/ CallGuessRegion \/ CallMessageRowToAttrs

SpecFn == FnInit /\ [][FnNext]_vars

(***************************************************************************)
(* Properties of the functions, checked under SpecFn.                      *)
(***************************************************************************)
RowCallReturned ==
    /\ result.done /\ call.fn = "_message_row_to_attrs" /\ result.ret.ok

\* C1: a row is classified as sent (type "2") exactly when SourceType = 3 or the
\* normalized Sender is in the Sender Set, whatever SourceType is, and as received
\* (type "1") otherwise; the address is the normalized ToAddress of a sent row and
\* the normalized Sender of a received one.
C1_Classification ==
    RowCallReturned =>
        LET row == call.row
            sender == NormalizePhoneNum(row.Sender, call.region).v
            sent == \/ row.SourceType = 3
                    \/ call.senders.some /\ sender \in call.senders.v
            rec == result.ret.v
        IN  /\ rec.type = (IF sent THEN "2" ELSE "1")
            /\ rec.address = (IF sent
                              THEN NormalizePhoneNum(row.ToAddress, call.region).v
                              ELSE sender)

\* a row of SourceType 2 whose sender is in the Sender Set came out as sent
C1_Witness ==
    /\ RowCallReturned
    /\ call.row.SourceType = 2
    /\ call.senders.some
    /\ NormalizePhoneNum(call.row.Sender, call.region).v \in call.senders.v
    /\ result.ret.v.type = "2"
    /\ result.ret.v.address = NormalizePhoneNum(call.row.ToAddress, call.region).v

\* C2: with no Contact Table the record has no contact_name key at all; with a
\* table the key is present and holds the stored name when the address is a key of
\* the table and "(Unknown)" otherwise.
C2_ContactName ==
    RowCallReturned =>
        LET rec == result.ret.v
            table == call.num2name
        IN  /\ table.kind = "None" => "contact_name" \notin DOMAIN rec
            /\ table.kind = "dict" =>
                   /\ "contact_name" \in DOMAIN rec
                   /\ rec.contact_name.some
                   /\ rec.contact_name.v =
                          (IF rec.address \in DOMAIN table.map
                           THEN table.map[rec.address]
                           ELSE <<"(", "U", "n", "k", "n", "o", "w", "n", ")">>)

\* C3: date and date_sent are the decimal string of (ticks div 10000) -
\* 62167219200000, which is ms for the tick count written [ms, sub].
C3_Date ==
    RowCallReturned =>
        /\ result.ret.v.date = PyStr(call.row.CreatedOn.ms)
        /\ result.ret.v.date_sent = PyStr(call.row.CreatedOn.ms)

IsCanonical(s) ==
    /\ Len(s) >= 1 /\ s[1] = "+"
    /\ \A i \in 2..Len(s) : s[i] \in DigitChars

FallbackCallReturned ==
    /\ result.done /\ call.fn = "_normalize_phone_num" /\ ~phonenumbers

\* C4: in fallback mode every canonical number, of any length, normalizes to
\* itself under every region hint.
C4_Idempotent ==
    (FallbackCallReturned /\ IsCanonical(call.phonestr)) =>
        result.ret = Ok(call.phonestr)

\* C4 as amended: in fallback mode a canonical number normalizes to itself under
\* every region hint, except that under region "US" a canonical number of exactly
\* 10 digits becomes '+', '1' and those 10 digits.
C4_IdempotentExceptUs10 ==
    (FallbackCallReturned /\ IsCanonical(call.phonestr)) =>
        result.ret = (IF call.region = Some(US) /\ Len(call.phonestr) = 11
                      THEN Ok(<<"+", "1">> \o Tail(call.phonestr))
                      ELSE Ok(call.phonestr))

\* a canonical number of 10 digits was normalized under region "US"
C4_Witness ==
    /\ FallbackCallReturned /\ IsCanonical(call.phonestr)
    /\ Len(call.phonestr) = 11 /\ call.region = Some(US)
    /\ Len(result.ret.v) = 12

\* s is letters, sep, letters, with the end or (after a hyphen) '_' behind them:
\* the index of sep, or 0
RegionPartAt(s, sep) ==
    LET at == {i \in 2..(Len(s) - 1) :
                  /\ s[i] = sep
                  /\ \A j \in 1..(i - 1) : IsLetter(s[j])
                  /\ LetterRunEnd(s, i + 1) >= i + 1
                  /\ \/ LetterRunEnd(s, i + 1) = Len(s)
                     \/ sep = "-" /\ s[LetterRunEnd(s, i + 1) + 1] = "_"}
    IN  IF at = {} THEN 0 ELSE CHOOSE i \in at : TRUE

RegionPart(s, sep) ==
    Upper(SubSeq(s, RegionPartAt(s, sep) + 1, LetterRunEnd(s, RegionPartAt(s, sep) + 1)))

\* C10: under os.name "nt" a locale name letters-hyphen-letters (optionally
\* followed by '_' and a suffix) gives the letters after the hyphen in upper case;
\* otherwise a locale name letters-underscore-letters gives the letters after the
\* underscore in upper case; no value is returned only for a missing locale name or
\* one without such a region part.
C10_GuessRegion ==
    (result.done /\ call.fn = "_guess_region" /\ localeSetting.kind # "unsupported") =>
        LET sep == IF osName = "nt" THEN "-" ELSE "_"
            name == localeSetting.name
        IN  /\ (localeSetting.kind = "name" /\ RegionPartAt(name, sep) > 0) =>
                   result.ret = Ok(Some(RegionPart(name, sep)))
            /\ result.ret = Ok(None) =>
                   \/ localeSetting.kind = "none"
                   \/ RegionPartAt(name, sep) = 0

\* the POSIX half of C10, which the code does satisfy
C10_PosixOnly ==
    (result.done /\ call.fn = "_guess_region" /\ localeSetting.kind = "name"
        /\ osName # "nt" /\ RegionPartAt(localeSetting.name, "_") > 0) =>
        result.ret = Ok(Some(RegionPart(localeSetting.name, "_")))

(***************************************************************************)
(* _read_contacts, lines 162-177.  A contacts file is the sequence of its  *)
(* lines, each ending in a newline.                                        *)
(***************************************************************************)
IsSpace(c) == c \in {" ", "\t", "\n"}

\* the first index from i on that holds no white space (Len(s) + 1: none)
SkipSpace(s, i) ==
    CHOOSE k \in i..(Len(s) + 1) :
        /\ \A j \in i..(k - 1) : IsSpace(s[j])
        /\ k = Len(s) + 1 \/ ~IsSpace(s[k])

\* the first index from i on that holds white space (Len(s) + 1: none)
SkipWord(s, i) ==
    CHOOSE k \in i..(Len(s) + 1) :
        /\ \A j \in i..(k - 1) : ~IsSpace(s[j])
        /\ k = Len(s) + 1 \/ IsSpace(s[k])

\* re.match(r"^\s*(?:#|$)", line)
IsBlankOrComment(line) ==
    LET i == SkipSpace(line, 1)
    IN  i = Len(line) + 1 \/ line[i] = "#"

\* line.split(None, 1)
Split1(line) ==
    LET i == SkipSpace(line, 1)
        j == SkipWord(line, i)
        k == SkipSpace(line, j)
    IN  IF i = Len(line) + 1 THEN <<>>
        ELSE IF k = Len(line) + 1 THEN <<SubSeq(line, i, j - 1)>>
        ELSE <<SubSeq(line, i, j - 1), SubSeq(line, k, Len(line))>>

\* the loop of lines 165-176 over the lines left, num2name being acc
RECURSIVE ReadLines(_, _, _)
ReadLines(lines, reg, acc) ==
    IF lines = <<>> THEN Ok(Dict(acc))
    ELSE IF IsBlankOrComment(Head(lines)) THEN ReadLines(Tail(lines), reg, acc)
    ELSE LET lineparts == Split1(Head(lines))
         IN  IF Len(lineparts) < 2 THEN Ok(IntOne)
             ELSE LET number == NormalizePhoneNum(lineparts[1], reg)
                  IN  IF ~number.ok THEN number
                      ELSE ReadLines(Tail(lines), reg,
                                     (number.v :> lineparts[2]) @@ acc)

ReadContacts(contacts_file, reg) == ReadLines(contacts_file, reg, <<>>)

(***************************************************************************)
(* main, lines 179-271, from the return of parse_args on.  An exception    *)
(* that leaves main ends the process with a traceback and status 1.        *)
(***************************************************************************)
Dashed10 == <<"5", "5", "5", "-", "1", "2", "3", "-", "4", "5", "6", "7">>
OwnNumber == <<"+", "1", "5", "5", "5", "0", "1", "0", "0", "0", "0", "0">>
Sp == <<" ">>
Nl == <<"\n">>
BobName == <<"B", "o", "b">>

ContactsFiles ==
    {<<Dashed10 \o Sp \o BobName \o Nl>>,
     <<<<"#", " ", "m", "e">> \o Nl, Nl, OwnNumber \o Sp \o <<"M", "e">> \o Nl,
       Local10 \o Sp \o BobName \o Nl>>,
     <<Dashed10 \o Nl>>}

StoreRow(sender, to, source_type, sub) ==
    [CreatedOn |-> [ms |-> 0, sub |-> sub], Sender |-> sender, ToAddress |-> to,
     SourceType |-> source_type, Body |-> "hi", IsRead |-> 1, IsLocked |-> 0]

StoreRows ==
    {StoreRow(Dashed10, OwnNumber, 2, 0), StoreRow(OwnNumber, Dashed10, 3, 9999),
     StoreRow(Dashed10, OwnNumber, 9, 0), StoreRow(NoDigits, OwnNumber, 2, 0),
     StoreRow(OwnNumber, NoDigits, 3, 0)}

Init ==
    /\ phonenumbers \in BOOLEAN
    /\ pyMajor \in {2, 3}
    /\ \/ /\ argRegion = None
          /\ osName \in {"nt", "posix"}
          /\ localeSetting \in {NoLocale, BadLocale, Locale(<<"e", "n", "_", "U", "S">>),
                                Locale(<<"e", "n", "-", "U", "S">>)}
       \/ /\ argRegion = Some(<<"u", "s">>)
          /\ osName = "posix"
          /\ localeSetting = NoLocale
    /\ argSender \in {None, Some(<<Dashed10>>), Some(<<OwnNumber, NoDigits>>)}
    /\ argContacts \in {None} \cup {Some(f) : f \in ContactsFiles}
    /\ dbReadable \in BOOLEAN
    /\ pc = "region"
    /\ region = None
    /\ senders = NoneSet
    /\ num2name = NoDict
    /\ rowsRead = <<>>
    /\ messages = <<>>
    /\ smses = NoElement
    /\ output = <<>>
    /\ outputClosed = FALSE
    /\ status = -1
    /\ call = [fn |-> "main"]
    /\ result = NotCalled

Inputs ==
    <<phonenumbers, pyMajor, osName, localeSetting, argRegion, argSender,
      argContacts, dbReadable, call, result>>

\* An exception propagates out of main: nothing in main catches it, and nothing
\* on the way closes args.output.
Abort ==
    /\ pc' = "aborted"
    /\ status' = 1

\* lines 228-231
SetRegion ==
    /\ pc = "region"
    /\ LET guess == GuessRegion(osName, localeSetting)
       IN  IF argRegion.some
           THEN /\ region' = Some(Upper(argRegion.v))
                /\ pc' = "sender"
                /\ UNCHANGED status
           ELSE IF guess.ok
           THEN /\ region' = guess.v
                /\ pc' = "sender"
                /\ UNCHANGED status
           ELSE /\ Abort
                /\ UNCHANGED region
    /\ UNCHANGED <<senders, num2name, rowsRead, messages, smses, output,
                   outputClosed>>
    /\ UNCHANGED Inputs

\* lines 233-235
NormalizeSenders ==
    /\ pc = "sender"
    /\ LET normalized == [i \in DOMAIN argSender.v |->
                             NormalizePhoneNum(argSender.v[i], region)]
       IN  IF ~argSender.some
           THEN /\ senders' = NoneSet
                /\ pc' = "contacts"
                /\ UNCHANGED status
           ELSE IF \A i \in DOMAIN normalized : normalized[i].ok
           THEN /\ senders' = [some |-> TRUE,
                               v |-> {normalized[i].v : i \in DOMAIN normalized}]
                /\ pc' = "contacts"
                /\ UNCHANGED status
           ELSE /\ Abort
                /\ UNCHANGED senders
    /\ UNCHANGED <<region, num2name, rowsRead, messages, smses, output,
                   outputClosed>>
    /\ UNCHANGED Inputs

\* line 240: _read_contacts(args.contacts), the region parameter left at its default
MainReadContacts == ReadContacts(argContacts.v, None)

\* lines 237-240
LoadContacts ==
    /\ pc = "contacts"
    /\ IF ~argContacts.some
       THEN /\ num2name' = NoDict
            /\ pc' = "opendb"
            /\ UNCHANGED status
       ELSE IF MainReadContacts.ok
       THEN /\ num2name' = MainReadContacts.v
            /\ pc' = "opendb"
            /\ UNCHANGED status
       ELSE /\ Abort
            /\ UNCHANGED num2name
    /\ UNCHANGED <<region, senders, rowsRead, messages, smses, output,
                   outputClosed>>
    /\ UNCHANGED Inputs

\* lines 243-248
OpenDb ==
    /\ pc = "opendb"
    /\ IF dbReadable
       THEN pc' = "rows" /\ UNCHANGED status
       ELSE Abort
    /\ UNCHANGED <<region, senders, num2name, rowsRead, messages, smses, output,
                   outputClosed>>
    /\ UNCHANGED Inputs

PrependMessage(msgs, attrs) == <<attrs>> \o msgs

\* the list comprehension of lines 249-252 collects the records in row order
AppendMessage(msgs, attrs) == Append(msgs, attrs)

\* lines 249-252, one row: the cursor yields it and it is transformed
FetchRow ==
    /\ pc = "rows"
    /\ Len(rowsRead) < MaxRows
    /\ \E row \in StoreRows :
           LET attrs == MessageRowToAttrs(row, num2name, region, senders)
           IN  /\ rowsRead' = Append(rowsRead, row)
               /\ IF attrs.ok
                  THEN /\ messages' = AppendMessage(messages, attrs.v)
                       /\ UNCHANGED <<pc, status>>
                  ELSE /\ Abort
                       /\ UNCHANGED messages
    /\ UNCHANGED <<region, senders, num2name, smses, output, outputClosed>>
    /\ UNCHANGED Inputs

\* lines 249-252: the cursor is exhausted
EndOfRows ==
    /\ pc = "rows"
    /\ pc' = "build"
    /\ UNCHANGED <<region, senders, num2name, rowsRead, messages, smses, output,
                   outputClosed, status>>
    /\ UNCHANGED Inputs

\* line 255
CountAttr(msgs) == PyStr(Len(msgs))

\* lines 254-260
BuildDocument ==
    /\ pc = "build"
    /\ smses' = [built |-> TRUE,
                 attrib |-> [count |-> CountAttr(messages),
                             backup_set |-> "uuid4",
                             backup_date |-> "time"],
                 children |-> [i \in DOMAIN messages |->
                                  [tag |-> "sms", attrib |-> messages[i]]]]
    /\ pc' = "preamble"
    /\ UNCHANGED <<region, senders, num2name, rowsRead, messages, output,
                   outputClosed, status>>
    /\ UNCHANGED Inputs

\* lines 263-269
WritePreamble ==
    /\ pc = "preamble"
    /\ output' = Append(output, [kind |-> "preamble", root |-> NoElement,
                                 complete |-> TRUE])
    /\ pc' = "serialize"
    /\ UNCHANGED <<region, senders, num2name, rowsRead, messages, smses,
                   outputClosed, status>>
    /\ UNCHANGED Inputs

\* ElementTree serializes text only: an attribute that is None raises TypeError
Serializable(element) == element.attrib.contact_name.some

\* the children written before the first one that cannot be serialized
SerializedChildren(children) ==
    LET bad == {i \in DOMAIN children : ~Serializable(children[i])}
    IN  IF bad = {} THEN children
        ELSE SubSeq(children, 1, (CHOOSE i \in bad : \A j \in bad : i <= j) - 1)

\* lines 270-271
WriteDocument ==
    /\ pc = "serialize"
    /\ LET written == SerializedChildren(smses.children)
       IN  IF written = smses.children
           THEN /\ output' = Append(output, [kind |-> "tree", root |-> smses,
                                             complete |-> TRUE])
                /\ pc' = "done"
                /\ status' = 0
           ELSE /\ output' = Append(output,
                                    [kind |-> "tree",
                                     root |-> [smses EXCEPT !.children = written],
                                     complete |-> FALSE])
                /\ Abort
    /\ UNCHANGED <<region, senders, num2name, rowsRead, messages, smses,
                   outputClosed>>
    /\ UNCHANGED Inputs

Next ==
    \/ SetRegion
    \/ NormalizeSenders
    \/ LoadContacts
    \/ OpenDb
    \/ FetchRow
    \/ EndOfRows
    \/ BuildDocument
    \/ WritePreamble
    \/ WriteDocument

Spec == Init /\ [][Next]_vars

(***************************************************************************)
(* Properties of a run of main, checked under Spec.                        *)
(***************************************************************************)
\* C5: on a run that completes normally over N rows the document's count is the
\* string form of N, the root has N children, and the i-th child is the record
\* assembled from the i-th row the row source yielded.
C5_CountAndOrder ==
    pc = "done" =>
        LET doc == output[Len(output)]
        IN  /\ doc.kind = "tree" /\ doc.complete
            /\ doc.root.attrib.count = PyStr(Len(rowsRead))
            /\ Len(doc.root.children) = Len(rowsRead)
            /\ \A i \in DOMAIN rowsRead :
                   Ok(doc.root.children[i].attrib) =
                       MessageRowToAttrs(rowsRead[i], num2name, region, senders)

\* a run completed over at least two rows, the first two of them different
C5_Witness ==
    /\ pc = "done"
    /\ Len(rowsRead) >= 2
    /\ rowsRead[1] # rowsRead[2]
    /\ Len(output[Len(output)].root.children) = Len(rowsRead)

\* phone normalization fails for the Sender of the row, or for the ToAddress of
\* the row when it is classified as sent
NumberFails(row) ==
    LET sender == NormalizePhoneNum(row.Sender, region)
    IN  \/ ~sender.ok
        \/ /\ row.SourceType = 3 \/ (senders.some /\ sender.v \in senders.v)
           /\ ~NormalizePhoneNum(row.ToAddress, region).ok

\* C6: if phone normalization fails for a row, at any position, the run aborts
\* with a non-zero status and nothing at all has been written to the output; the
\* output is written only after every row has been transformed successfully.
C6_NumberFailureAborts ==
    /\ \A i \in DOMAIN rowsRead :
           NumberFails(rowsRead[i]) =>
               /\ pc = "aborted"
               /\ status > 0
               /\ output = <<>>
    /\ output # <<>> =>
           /\ pc \in {"serialize", "done", "aborted"}
           /\ Len(messages) = Len(rowsRead)
           /\ \A i \in DOMAIN rowsRead : ~NumberFails(rowsRead[i])

\* in full mode a row failed after another row had been transformed
C6_Witness ==
    /\ phonenumbers
    /\ pc = "aborted" /\ status > 0
    /\ Len(rowsRead) >= 2
    /\ Len(messages) = Len(rowsRead) - 1
    /\ NumberFails(rowsRead[Len(rowsRead)])
    /\ output = <<>>

\* the contacts source holds a line that is neither blank nor a comment and has
\* a single token
HasSingleTokenLine(file) ==
    \E i \in DOMAIN file : ~IsBlankOrComment(file[i]) /\ Len(Split1(file[i])) = 1

\* C7: with a single-token line in the contacts source the run aborts at contact
\* loading, for every store: no row is read, nothing is written, and the status
\* is non-zero.
C7_MalformedContactsAbort ==
    (/\ argContacts.some
     /\ HasSingleTokenLine(argContacts.v)
     /\ pc \notin {"region", "sender", "contacts"}) =>
        /\ pc = "aborted"
        /\ status > 0
        /\ rowsRead = <<>>
        /\ output = <<>>

\* C8: the output stream is closed on every terminating path of main.
C8_OutputClosed ==
    pc \in {"done", "aborted"} => outputClosed

\* the number string of a row's counterpart: ToAddress when sent, else Sender
Counterpart(i) ==
    IF messages[i].type = "2" THEN rowsRead[i].ToAddress ELSE rowsRead[i].Sender

\* the contacts source has a "number name" line whose number is the text s
ContactsHaveNumber(s) ==
    /\ argContacts.some
    /\ \E i \in DOMAIN argContacts.v :
           /\ ~IsBlankOrComment(argContacts.v[i])
           /\ Len(Split1(argContacts.v[i])) = 2
           /\ Split1(argContacts.v[i])[1] = s

\* C9: a row whose counterpart number is the same text as a number of the
\* contacts source has its address among the keys of the Contact Table, and gets a
\* stored name, never "(Unknown)".
C9_ContactsSameRegion ==
    \A i \in DOMAIN messages :
        (num2name.kind = "dict" /\ ContactsHaveNumber(Counterpart(i))) =>
            /\ messages[i].address \in DOMAIN num2name.map
            /\ messages[i].contact_name = Some(num2name.map[messages[i].address])

====
